---- MODULE Spec2Model ----
(***************************************************************************)
(* check_rds_mysql: an Icinga/Nagios plug-in that samples three CloudWatch *)
(* metrics of an RDS instance, compares each with Nagios threshold ranges  *)
(* and exits with the aggregated state.                                    *)
(*                                                                         *)
(* Python strings are sequences of one-character strings.  Python numbers  *)
(* are exact decimals [neg, ip, fp] (sign, integer digits, fraction        *)
(* digits, most significant first, normalised), so that 8Gi = 8589934592   *)
(* is computed digit by digit and never meets the width of a machine word. *)
(***************************************************************************)
EXTENDS Integers, Sequences, FiniteSets, TLC

(***************************************************************************)
(* Exit codes, check_rds_mysql.py lines 18-21.                             *)
(***************************************************************************)
STATE_OK == 0
STATE_WARN == 1
STATE_CRIT == 2
STATE_UNKNOWN == 3

(***************************************************************************)
(* Exact decimal arithmetic: the values of Python's int and float on the   *)
(* inputs of the model.                                                    *)
(***************************************************************************)
\* F applied to the value of e: e is evaluated once, however often F uses it
With(e, F(_)) == CHOOSE r \in {F(x) : x \in {e}} : TRUE

Digits == {"0", "1", "2", "3", "4", "5", "6", "7", "8", "9"}

DigitVal(c) ==
  CASE c = "0" -> 0 [] c = "1" -> 1 [] c = "2" -> 2 [] c = "3" -> 3
    [] c = "4" -> 4 [] c = "5" -> 5 [] c = "6" -> 6 [] c = "7" -> 7
    [] c = "8" -> 8 [] c = "9" -> 9

DigitChar(d) ==
  CASE d = 0 -> "0" [] d = 1 -> "1" [] d = 2 -> "2" [] d = 3 -> "3"
    [] d = 4 -> "4" [] d = 5 -> "5" [] d = 6 -> "6" [] d = 7 -> "7"
    [] d = 8 -> "8" [] d = 9 -> "9"

Rev(s) == [i \in 1..Len(s) |-> s[Len(s) + 1 - i]]

Min(S) == CHOOSE x \in S : \A y \in S : x <= y

\* a digit sequence without its leading zeros
StripLeading(ds) ==
  LET nz == {i \in 1..Len(ds) : ds[i] # 0}
  IN IF nz = {} THEN <<>> ELSE SubSeq(ds, Min(nz), Len(ds))

StripTrailing(ds) == Rev(StripLeading(Rev(ds)))

\* the decimal digits of a natural number below 10^10, most significant first
NatDigits(n) == StripLeading([i \in 1..10 |-> (n \div (10 ^ (10 - i))) % 10])

\* the product of two naturals given by their digits: the column sums of the
\* long multiplication, then the carries
MulDigits(a, b) ==
  LET n == Len(a)
      m == Len(b)
      A(i) == IF i < n THEN a[n - i] ELSE 0
      B(j) == IF j < m THEN b[m - j] ELSE 0
      column(k) ==
        LET S[i \in 0..k] == (IF i = 0 THEN 0 ELSE S[i - 1]) + A(i) * B(k - i)
        IN S[k]
      acc[k \in 0..(n + m)] == (IF k = 0 THEN 0 ELSE acc[k - 1] \div 10) + column(k)
  IN StripLeading([p \in 1..(n + m + 1) |-> acc[n + m + 1 - p] % 10])

MulNat(a, b) == With(a, LAMBDA x : With(b, LAMBDA y : MulDigits(x, y)))

Dec(neg, ip, fp) ==
  LET i == StripLeading(ip)
      f == StripTrailing(fp)
  IN [neg |-> neg /\ (i # <<>> \/ f # <<>>), ip |-> i, fp |-> f]

Zero == Dec(FALSE, <<>>, <<>>)

IntToDec(n) == IF n < 0 THEN Dec(TRUE, NatDigits(-n), <<>>) ELSE Dec(FALSE, NatDigits(n), <<>>)

\* h/2 as a decimal: the sample values of the model are multiples of one half
HalfDec(h) ==
  LET a == IF h < 0 THEN -h ELSE h
  IN Dec(h < 0, NatDigits(a \div 2), IF a % 2 = 1 THEN <<5>> ELSE <<>>)

\* Python int * int, the right operand a positive literal
MulInt(a, k) == Dec(a.neg, MulNat(a.ip, NatDigits(k)), <<>>)

\* -1, 0, 1: lexicographic order of digit sequences, the shorter padded with zeros
CmpLex(a, b) ==
  LET n == IF Len(a) > Len(b) THEN Len(a) ELSE Len(b)
      A(i) == IF i <= Len(a) THEN a[i] ELSE 0
      B(i) == IF i <= Len(b) THEN b[i] ELSE 0
      diff == {i \in 1..n : A(i) # B(i)}
  IN IF diff = {} THEN 0
     ELSE IF A(Min(diff)) < B(Min(diff)) THEN -1 ELSE 1

CmpAbs(a, b) ==
  IF Len(a.ip) < Len(b.ip) THEN -1
  ELSE IF Len(a.ip) > Len(b.ip) THEN 1
  ELSE LET c == CmpLex(a.ip, b.ip) IN IF c # 0 THEN c ELSE CmpLex(a.fp, b.fp)

CmpSigned(a, b) ==
  IF a.neg /\ ~b.neg THEN -1
  ELSE IF ~a.neg /\ b.neg THEN 1
  ELSE IF a.neg THEN CmpAbs(b, a)
  ELSE CmpAbs(a, b)

\* -1, 0, 1 as a < b, a = b, a > b
Cmp(a, b) == With(a, LAMBDA x : With(b, LAMBDA y : CmpSigned(x, y)))

Lt(a, b) == Cmp(a, b) = -1
Le(a, b) == Cmp(a, b) # 1
Gt(a, b) == Cmp(a, b) = 1
Ge(a, b) == Cmp(a, b) # -1

(***************************************************************************)
(* Python's str primitives on the alphabet of the model                    *)
(* (digits, + - . ~ : @ K M G i and a letter x that is in no number).      *)
(***************************************************************************)
Contains(s, c) == \E i \in 1..Len(s) : s[i] = c

EndsWith(s, suffix) ==
  /\ Len(s) >= Len(suffix)
  /\ SubSeq(s, Len(s) - Len(suffix) + 1, Len(s)) = suffix

DropLast(s, n) == SubSeq(s, 1, Len(s) - n)

\* str.split(sep): the pieces between the separators, empty pieces kept
Split(s, sep) ==
  LET at == {i \in 1..Len(s) : s[i] = sep}
      n == Cardinality(at)
      cut(k) == IF k = 0 THEN 0
                ELSE IF k = n + 1 THEN Len(s) + 1
                ELSE CHOOSE i \in at : Cardinality({j \in at : j <= i}) = k
  IN [k \in 1..(n + 1) |-> SubSeq(s, cut(k - 1) + 1, cut(k) - 1)]

\* sep.join(parts)
Join(parts, sep) ==
  LET J[k \in 0..Len(parts)] ==
        IF k = 0 THEN <<>>
        ELSE IF k = 1 THEN parts[1]
        ELSE J[k - 1] \o <<sep>> \o parts[k]
  IN J[Len(parts)]

AllDigits(s) == \A i \in 1..Len(s) : s[i] \in Digits

DigitVals(s) == [i \in 1..Len(s) |-> DigitVal(s[i])]

Unsigned(s) == IF s # <<>> /\ s[1] \in {"+", "-"} THEN Tail(s) ELSE s

Negative(s) == s # <<>> /\ s[1] = "-"

\* int(s): an optional sign and one or more digits; anything else raises ValueError
PyInt(s) ==
  With(s, LAMBDA str :
    LET body == Unsigned(str)
    IN IF body # <<>> /\ AllDigits(body)
       THEN [exc |-> "None", val |-> Dec(Negative(str), DigitVals(body), <<>>)]
       ELSE [exc |-> "ValueError", val |-> Zero])

\* float(s): an optional sign, digits with at most one point and at least one digit
PyFloat(s) ==
  With(s, LAMBDA str : With(Split(Unsigned(str), "."), LAMBDA parts :
    LET ip == parts[1]
        fp == IF Len(parts) = 2 THEN parts[2] ELSE <<>>
    IN IF /\ Len(parts) <= 2
          /\ AllDigits(ip)
          /\ AllDigits(fp)
          /\ Len(ip) + Len(fp) >= 1
       THEN [exc |-> "None", val |-> Dec(Negative(str), DigitVals(ip), DigitVals(fp))]
       ELSE [exc |-> "ValueError", val |-> Zero]))

\* str(n) of an int
PyStr(n) ==
  LET ds == IF n.ip = <<>> THEN <<"0">> ELSE [i \in 1..Len(n.ip) |-> DigitChar(n.ip[i])]
  IN IF n.neg THEN <<"-">> \o ds ELSE ds

(***************************************************************************)
(* Python objects that reach compare_range as its window: a str, or the    *)
(* int that expand_unit returns for a suffixed value.                      *)
(***************************************************************************)
StrObj(s) == [type |-> "str", str |-> s, int |-> Zero]

IntObj(n) == [type |-> "int", str |-> <<>>, int |-> n]

\* str(obj)
ObjStr(obj) == IF obj.type = "int" THEN PyStr(obj.int) ELSE obj.str

Returned(obj) == [exc |-> "None", obj |-> obj]

Raised(e) == [exc |-> e, obj |-> StrObj(<<>>)]

\* int(value[:-n]) * k, lines 312-322
Scaled(value, n, k) ==
  With(PyInt(DropLast(value, n)), LAMBDA num :
    IF num.exc # "None" THEN Raised(num.exc) ELSE Returned(IntObj(MulInt(num.val, k))))

\* the suffix tests in the order of lines 311-323
SuffixRule(value) ==
  IF EndsWith(value, <<"K">>) THEN Scaled(value, 1, 1000)
  ELSE IF EndsWith(value, <<"K", "i">>) THEN Scaled(value, 2, 1024)
  ELSE IF EndsWith(value, <<"M">>) THEN Scaled(value, 1, 1000000)
  ELSE IF EndsWith(value, <<"M", "i">>) THEN Scaled(value, 2, 1048576)
  ELSE IF EndsWith(value, <<"G">>) THEN Scaled(value, 1, 1000000000)
  ELSE IF EndsWith(value, <<"G", "i">>) THEN Scaled(value, 2, 1073741824)
  ELSE Returned(StrObj(value))

\* line 310: the pieces expanded one by one and joined; the first one to raise ends it
ExpandedParts(subs) ==
  IF \E i \in 1..Len(subs) : subs[i].exc # "None"
  THEN Raised(subs[Min({i \in 1..Len(subs) : subs[i].exc # "None"})].exc)
  ELSE Returned(StrObj(Join([i \in 1..Len(subs) |-> ObjStr(subs[i].obj)], ":")))

\* expand_unit, lines 303-323: [exc, obj], obj the int or str returned.  A piece
\* between two ':' holds no ':', so the call of line 310 goes to the suffix rules.
expand_unit(value) ==
  With(value, LAMBDA v :
    IF Contains(v, ":")
    THEN With(Split(v, ":"), LAMBDA parts :
           With([i \in 1..Len(parts) |-> With(parts[i], LAMBDA part : SuffixRule(part))],
                LAMBDA subs : ExpandedParts(subs)))
    ELSE SuffixRule(v))

(***************************************************************************)
(* compare_range, lines 193-220.                                           *)
(***************************************************************************)
\* a bound after lines 213-214: None, or the float
NoBound == [none |-> TRUE, val |-> Zero]

Bound(x) == [none |-> FALSE, val |-> x]

\* line 215 with the same comparison for plain and inverted ranges
BelowStartStrict(incl, value, start) == ~start.none /\ Lt(value, start.val)

\* line 215: the value is on the alerting side of the lower bound
BelowStart(incl, value, start) ==
  ~start.none /\ ((incl /\ Le(value, start.val)) \/ (~incl /\ Lt(value, start.val)))

\* line 217: the value is on the alerting side of the upper bound
AboveStop(incl, value, stop) ==
  ~stop.none /\ ((incl /\ Ge(value, stop.val)) \/ (~incl /\ Gt(value, stop.val)))

\* lines 205-211: <<start, stop>> as strings; start is the number 0 without ':'
RangeBits(window) ==
  IF ~Contains(window, ":")
  THEN [zero |-> TRUE, start |-> <<>>, stop |-> window]
  ELSE LET bits == Split(window, ":")
       IN [zero |-> FALSE, start |-> bits[1],
           stop |-> IF bits[2] # <<>> THEN bits[2] ELSE <<"~">>]

\* lines 213-220, start and stop still the strings of RangeBits
InRange(incl, value, bits) ==
  LET startNone == ~bits.zero /\ bits.start = <<"~">>
      stopNone == bits.stop = <<"~">>
  IN With(IF bits.zero THEN [exc |-> "None", val |-> Zero] ELSE PyFloat(bits.start),
          LAMBDA startF :
       IF ~startNone /\ startF.exc # "None" THEN [exc |-> startF.exc, ret |-> FALSE]
       ELSE With(PyFloat(bits.stop), LAMBDA stopF :
         IF ~stopNone /\ stopF.exc # "None" THEN [exc |-> stopF.exc, ret |-> FALSE]
         ELSE LET start == IF startNone THEN NoBound ELSE Bound(startF.val)
                  stop == IF stopNone THEN NoBound ELSE Bound(stopF.val)
              IN IF BelowStart(incl, value, start) THEN [exc |-> "None", ret |-> FALSE]
                 ELSE IF AboveStop(incl, value, stop) THEN [exc |-> "None", ret |-> FALSE]
                 ELSE [exc |-> "None", ret |-> TRUE]))

\* compare_range(value, window): [exc, ret]
compare_range(value, window) ==
  With(value, LAMBDA v : With(window, LAMBDA win :
    IF win.type = "int" THEN [exc |-> "TypeError", ret |-> FALSE]
    ELSE IF win.str = <<>> THEN [exc |-> "IndexError", ret |-> FALSE]
    ELSE LET incl == win.str[1] = "@"
         IN With(RangeBits(IF incl THEN Tail(win.str) ELSE win.str),
                 LAMBDA bits : InRange(incl, v, bits))))

\* compare with the warning range tested first
compare_warn_first(value, warn, crit) ==
  With(compare_range(value, warn), LAMBDA w :
    IF w.exc # "None" THEN [exc |-> w.exc, state |-> STATE_UNKNOWN]
    ELSE IF ~w.ret THEN [exc |-> "None", state |-> STATE_WARN]
    ELSE With(compare_range(value, crit), LAMBDA c :
      IF c.exc # "None" THEN [exc |-> c.exc, state |-> STATE_UNKNOWN]
      ELSE IF ~c.ret THEN [exc |-> "None", state |-> STATE_CRIT]
      ELSE [exc |-> "None", state |-> STATE_OK]))

\* compare, lines 223-235: [exc, state]
compare(value, warn, crit) ==
  With(compare_range(value, crit), LAMBDA c :
    IF c.exc # "None" THEN [exc |-> c.exc, state |-> STATE_UNKNOWN]
    ELSE IF ~c.ret THEN [exc |-> "None", state |-> STATE_CRIT]
    ELSE With(compare_range(value, warn), LAMBDA w :
      IF w.exc # "None" THEN [exc |-> w.exc, state |-> STATE_UNKNOWN]
      ELSE IF ~w.ret THEN [exc |-> "None", state |-> STATE_WARN]
      ELSE [exc |-> "None", state |-> STATE_OK]))

(***************************************************************************)
(* One run of main().  The collaborators (RDS and EC2 metadata, CloudWatch *)
(* metric source) answer each call with data, with nothing, or with a      *)
(* BotoCoreError/ClientError.  An action is one collaborator call together *)
(* with all the code that runs until the next call or the exit.            *)
(***************************************************************************)
VARIABLES
  args,         \* the parsed command line, line 352
  pc,           \* the function main is in, or "done"
  call,         \* the collaborator call that function makes next
  instance,     \* the DbInstance of the current function
  offset,       \* the offset of the pending Metric.get_statistics call
  queries,      \* the windows the current Metric object has queried
  responses,    \* the Datapoints lists it got back, one per query
  sample,       \* what its get_current_value did
  states,       \* the list main appends to, lines 353-378
  exit,         \* how the process ended
  output,       \* what it printed
  networkUsed,  \* whether any collaborator call has been made
  failedCall,   \* the collaborator call that raised, if any
  probe,        \* a pure function applied on its own, with its input
  answer        \* and what it returned

vars == <<args, pc, call, instance, offset, queries, responses, sample, states,
          exit, output, networkUsed, failedCall, probe, answer>>

\* the deepest offset get_statistics queries, line 141
MaxOffset == 20

\* Metric(minutes=5), lines 248, 271, 293
Minutes == 5

\* the longest Datapoints list the metric source returns
MaxPoints == 2

\* Datapoints[..][statistics] the metric source may report for each metric
MetricValues(name) ==
  CASE name = "DatabaseConnections" -> {4, 8}
    [] name = "FreeStorageSpace" -> {0, 536870912}
    [] name = "CPUUtilization" -> {50, 90}

Datapoints(name) ==
  UNION {[1..n -> MetricValues(name)] : n \in 0..MaxPoints}

\* what the metadata collaborators report: max_connections, AllocatedStorage in GiB
MaxConnectionsValues == {8}

AllocatedStorageValues == {1}

\* DbInstance.max_connections and DbInstance.storage, lines 75-86
DbInstance(max_connections, allocated) ==
  [max_connections |-> max_connections, storage |-> allocated * 1024 * 1024 * 1024]

NoInstance == DbInstance(0, 0)

\* the metric each function of main samples, lines 249, 272, 294
MetricName(fn) ==
  CASE fn = "unused_connections" -> "DatabaseConnections"
    [] fn = "free_storage" -> "FreeStorageSpace"
    [] fn = "cpu_used" -> "CPUUtilization"

\* start_time and end_time, lines 175-190, in minutes relative to utcnow()
start_time(off) == 0 - (Minutes + off)

\* end_time without the offset: every window ends now
end_time_unshifted(off) == 0

end_time(off) == 0 - off

Query(off) == [StartTime |-> start_time(off), EndTime |-> end_time(off)]

\* a Python value that may be None
None == [none |-> TRUE, val |-> 0]

Some(v) == [none |-> FALSE, val |-> v]

\* get_current_value, lines 164-173, on what get_statistics returned:
\* None (the offset passed 20) or the statistics with their Datapoints
get_current_value(statistics) ==
  IF statistics.none THEN [exc |-> "TypeError", ret |-> None]
  ELSE IF statistics.Datapoints = <<>> THEN [exc |-> "None", ret |-> None]
  ELSE [exc |-> "None",
        ret |-> Some(statistics.Datapoints[Len(statistics.Datapoints)])]

RECURSIVE GCD(_, _)
GCD(a, b) == IF b = 0 THEN a ELSE GCD(b, a % b)

\* a / b * 100 of lines 257 and 280; the inputs of the model make it a whole
\* number that the float arithmetic computes exactly
Percent(a, b) == LET g == GCD(a, b) IN ((a \div g) * 100) \div (b \div g)

\* unused_connections, lines 255-258, from the sampled value
unused_connections(a, inst, cur) ==
  IF cur.none THEN [exc |-> "TypeError", ret |-> None]
  ELSE LET value == inst.max_connections - cur.val
       IN [exc |-> "None",
           ret |-> Some(IF a.percent THEN Percent(value, inst.max_connections) ELSE value)]

\* free_storage, lines 278-281
free_storage(a, inst, cur) ==
  IF a.percent
  THEN IF cur.none THEN [exc |-> "TypeError", ret |-> None]
       ELSE [exc |-> "None", ret |-> Some(Percent(cur.val, inst.storage))]
  ELSE [exc |-> "None", ret |-> cur]

\* cpu_used, line 300
cpu_used(a, inst, cur) == [exc |-> "None", ret |-> cur]

Item(name, state, value, unit) ==
  [exc |-> "None", item |-> [name |-> name, state |-> state, value |-> value, unit |-> unit]]

ItemRaised(e) ==
  [exc |-> e, item |-> [name |-> "", state |-> STATE_UNKNOWN, value |-> None, unit |-> ""]]

\* the dict of lines 357-363
ConnectionsItem(a, value) ==
  With(IF value.none THEN [exc |-> "None", state |-> STATE_UNKNOWN]
       ELSE compare(IntToDec(value.val), StrObj(a.warn_conns), StrObj(a.crit_conns)),
       LAMBDA st :
    IF st.exc # "None" THEN ItemRaised(st.exc)
    ELSE Item("free_connections", st.state, value, IF a.percent THEN "%" ELSE ""))

\* the 'state' entry of the dict of lines 365-371
StorageState(a, value) ==
  IF value.none THEN [exc |-> "None", state |-> STATE_UNKNOWN]
  ELSE With(expand_unit(a.warn_disk), LAMBDA warn :
         IF warn.exc # "None" THEN [exc |-> warn.exc, state |-> STATE_UNKNOWN]
         ELSE With(expand_unit(a.crit_disk), LAMBDA crit :
           IF crit.exc # "None" THEN [exc |-> crit.exc, state |-> STATE_UNKNOWN]
           ELSE compare(IntToDec(value.val), warn.obj, crit.obj)))

\* the dict of lines 365-371; the 'value' entry divides None in absolute mode
StorageItem(a, value) ==
  With(StorageState(a, value), LAMBDA st :
    IF st.exc # "None" THEN ItemRaised(st.exc)
    ELSE IF a.percent THEN Item("free_storage", st.state, value, "%")
    ELSE IF value.none THEN ItemRaised("TypeError")
    ELSE Item("free_storage", st.state, Some((value.val \div 1024) \div 1024), " MiB"))

\* the dict of lines 373-378
CpuItem(a, value) ==
  With(IF value.none THEN [exc |-> "None", state |-> STATE_UNKNOWN]
       ELSE compare(IntToDec(value.val), StrObj(a.warn_cpu), StrObj(a.crit_cpu)),
       LAMBDA st :
    IF st.exc # "None" THEN ItemRaised(st.exc)
    ELSE Item("cpu_used", st.state, value, "%"))

\* one "value = fn(args); states.append({...})" of main, from the sampled value on
Gather(fn, a, inst, cur) ==
  With(CASE fn = "unused_connections" -> unused_connections(a, inst, cur)
         [] fn = "free_storage" -> free_storage(a, inst, cur)
         [] fn = "cpu_used" -> cpu_used(a, inst, cur),
       LAMBDA v :
    IF v.exc # "None" THEN ItemRaised(v.exc)
    ELSE With(v.ret, LAMBDA value :
           CASE fn = "unused_connections" -> ConnectionsItem(a, value)
             [] fn = "free_storage" -> StorageItem(a, value)
             [] fn = "cpu_used" -> CpuItem(a, value)))

HasState(sts, s) == \E i \in 1..Len(sts) : sts[i].state = s

\* lines 381-391 with the UNKNOWN test before the WARNING test
final_state_unknown_first(sts) ==
  IF HasState(sts, STATE_CRIT) THEN STATE_CRIT
  ELSE IF HasState(sts, STATE_UNKNOWN) THEN STATE_UNKNOWN
  ELSE IF HasState(sts, STATE_WARN) THEN STATE_WARN
  ELSE STATE_OK

\* lines 381-391
final_state(sts) ==
  IF HasState(sts, STATE_CRIT) THEN STATE_CRIT
  ELSE IF HasState(sts, STATE_WARN) THEN STATE_WARN
  ELSE IF HasState(sts, STATE_UNKNOWN) THEN STATE_UNKNOWN
  ELSE STATE_OK

final_text(sts) ==
  IF HasState(sts, STATE_CRIT) THEN "CRITICAL:"
  ELSE IF HasState(sts, STATE_WARN) THEN "WARNING:"
  ELSE IF HasState(sts, STATE_UNKNOWN) THEN "UNKNOWN:"
  ELSE "OK:"

Running == [status |-> "running", code |-> 0, exc |-> "None"]

\* sys.exit(code)
Exited(code) == [status |-> "exited", code |-> code, exc |-> "None"]

\* an exception nobody catches: the interpreter prints the traceback and exits 1
Traceback(e) == [status |-> "exited", code |-> 1, exc |-> e]

NoOutput == [text |-> "", items |-> <<>>]

(***************************************************************************)
(* The command lines of the model.                                         *)
(***************************************************************************)
Thresholds ==
  [warn_conns |-> <<"5", ":">>, crit_conns |-> <<"2", ":">>,
   warn_disk |-> <<"6", "0", ":">>, crit_disk |-> <<"2", "0", ":">>,
   warn_cpu |-> <<"4", "0">>, crit_cpu |-> <<"8", "0">>]

ThresholdSets ==
  { Thresholds,
    \* unit suffixes in disk ranges, inverted and unbounded ranges
    [Thresholds EXCEPT !.warn_conns = <<"@", "4", ":">>, !.crit_conns = <<"@", "0", ":">>,
                       !.warn_disk = <<"1", "G", "i", ":">>,
                       !.crit_disk = <<"5", "1", "2", "M", "i", ":">>,
                       !.warn_cpu = <<"~", ":", "~">>, !.crit_cpu = <<"~", ":", "~">>],
    \* a single suffixed disk value, as in the help text of line 334
    [Thresholds EXCEPT !.warn_disk = <<"8", "G", "i">>, !.crit_disk = <<"1", "G", "i", ":">>],
    \* malformed thresholds
    [Thresholds EXCEPT !.crit_conns = <<"2", "x", ":">>],
    [Thresholds EXCEPT !.warn_cpu = <<"x">>] }

Args ==
  { [percent |-> p, last_state |-> l, thresholds |-> th] :
      p \in BOOLEAN, l \in BOOLEAN, th \in ThresholdSets }

\* the fields of args that main reads
Parsed(a) ==
  [percent |-> a.percent, last_state |-> a.last_state,
   warn_conns |-> a.thresholds.warn_conns, crit_conns |-> a.thresholds.crit_conns,
   warn_disk |-> a.thresholds.warn_disk, crit_disk |-> a.thresholds.crit_disk,
   warn_cpu |-> a.thresholds.warn_cpu, crit_cpu |-> a.thresholds.crit_cpu]

\* get_current_value of the current Metric object has not come back yet
Pending == [fn |-> "none", status |-> "pending", exc |-> "None", ret |-> None]

NoProbe == [fn |-> "none"]

NoAnswer ==
  [done |-> FALSE, exc |-> "None", ret |-> FALSE, state |-> STATE_OK,
   obj |-> StrObj(<<>>)]

\* main after parse_args, about to call unused_connections, lines 352-356
Init ==
  /\ args \in {Parsed(a) : a \in Args}
  /\ pc = "unused_connections"
  /\ call = "describe_db_instances"
  /\ instance = NoInstance
  /\ offset = 0
  /\ queries = <<>>
  /\ responses = <<>>
  /\ sample = Pending
  /\ states = <<>>
  /\ exit = Running
  /\ output = NoOutput
  /\ networkUsed = FALSE
  /\ failedCall = "none"
  /\ probe = NoProbe
  /\ answer = NoAnswer

\* an exception leaves main: nothing more is printed to stdout
Crash(e) ==
  /\ exit' = Traceback(e)
  /\ pc' = "done"
  /\ call' = "none"
  /\ UNCHANGED <<output, states>>

\* a metadata call raises BotoCoreError/ClientError, which nothing catches
MetadataFails(api) ==
  /\ failedCall' = api
  /\ Crash("ClientError")

\* rds.describe_db_instances, lines 31-35, the first thing a sampling function with
\* a DbInstance does: the Metric object of the previous function is gone
DescribeDbInstances ==
  /\ exit.status = "running"
  /\ call = "describe_db_instances"
  /\ networkUsed' = TRUE
  /\ queries' = <<>>
  /\ responses' = <<>>
  /\ sample' = Pending
  /\ \/ MetadataFails("describe_db_instances")
     \/ /\ call' = "describe_db_parameters"
        /\ UNCHANGED <<pc, states, exit, output, failedCall>>
  /\ UNCHANGED <<args, instance, offset, probe, answer>>

\* the describe_db_parameters paginator, lines 43-51
DescribeDbParameters ==
  /\ exit.status = "running"
  /\ call = "describe_db_parameters"
  /\ networkUsed' = TRUE
  /\ \/ MetadataFails("describe_db_parameters")
     \/ /\ call' = "describe_instance_types"
        /\ UNCHANGED <<pc, states, exit, output, failedCall>>
  /\ UNCHANGED <<args, instance, offset, queries, responses, sample, probe, answer>>

\* ec2.describe_instance_types, lines 63-68; then the Metric is constructed and
\* get_current_value is entered, lines 245-255 and 268-278
DescribeInstanceTypes ==
  /\ exit.status = "running"
  /\ call = "describe_instance_types"
  /\ networkUsed' = TRUE
  /\ \/ /\ MetadataFails("describe_instance_types")
        /\ UNCHANGED instance
     \/ /\ \E m \in MaxConnectionsValues, g \in AllocatedStorageValues :
             instance' = DbInstance(m, g)
        /\ call' = "get_statistics"
        /\ UNCHANGED <<pc, states, exit, output, failedCall>>
  /\ UNCHANGED <<args, offset, queries, responses, sample, probe, answer>>

\* the query at the pending offset joins the log of the current Metric object
Logged(log, entry) == IF offset = 0 THEN <<entry>> ELSE Append(log, entry)

\* metric.get_statistics raises: lines 155-157 print and exit
GetStatisticsFails ==
  /\ exit.status = "running"
  /\ call = "get_statistics"
  /\ offset <= MaxOffset
  /\ networkUsed' = TRUE
  /\ queries' = Logged(queries, Query(offset))
  /\ responses' = IF offset = 0 THEN <<>> ELSE responses
  /\ sample' = [fn |-> pc, status |-> "aborted", exc |-> "None", ret |-> None]
  /\ failedCall' = "get_statistics"
  /\ output' = [text |-> "UNKNOWN - err", items |-> <<>>]
  /\ exit' = Exited(STATE_UNKNOWN)
  /\ pc' = "done"
  /\ call' = "none"
  /\ UNCHANGED <<args, instance, offset, states, probe, answer>>

\* line 159 without the test of last_state
RetriesAlways(a, datapoints) == datapoints = <<>>

\* line 159: the recursion of get_statistics goes one offset deeper
Retries(a, datapoints) == datapoints = <<>> /\ a.last_state

\* metric.get_statistics returns no datapoints and line 160 recurses to an
\* offset that line 141 still lets through
GetStatisticsRetry ==
  /\ exit.status = "running"
  /\ call = "get_statistics"
  /\ offset <= MaxOffset
  /\ Retries(args, <<>>)
  /\ offset + 1 <= MaxOffset
  /\ networkUsed' = TRUE
  /\ queries' = Logged(queries, Query(offset))
  /\ responses' = Logged(responses, <<>>)
  /\ offset' = offset + 1
  /\ sample' = Pending
  /\ UNCHANGED <<args, pc, call, instance, states, exit, output,
                 failedCall, probe, answer>>

\* what get_statistics returns to get_current_value once the metric source has
\* answered the query at off with datapoints, lines 141-162
get_statistics(a, off, datapoints) ==
  IF Retries(a, datapoints) /\ off + 1 > MaxOffset
  THEN [none |-> TRUE, Datapoints |-> <<>>]
  ELSE [none |-> FALSE, Datapoints |-> datapoints]

\* the function main calls after fn, with its first collaborator call
NextFn(fn) ==
  CASE fn = "unused_connections" -> [pc |-> "free_storage", call |-> "describe_db_instances"]
    [] fn = "free_storage" -> [pc |-> "cpu_used", call |-> "get_statistics"]
    [] fn = "cpu_used" -> [pc |-> "done", call |-> "none"]

\* lines 380-398: the overall state, the summary line and the exit
Finish(sts) ==
  /\ output' = [text |-> final_text(sts), items |-> sts]
  /\ exit' = Exited(final_state(sts))

\* metric.get_statistics returns and the recursion ends: get_current_value, the
\* rest of the sampling function and the states.append of main run, and main
\* goes on to the next function or to the summary
GetStatisticsReturns ==
  /\ exit.status = "running"
  /\ call = "get_statistics"
  /\ offset <= MaxOffset
  /\ \E datapoints \in Datapoints(MetricName(pc)) :
       /\ ~(Retries(args, datapoints) /\ offset + 1 <= MaxOffset)
       /\ networkUsed' = TRUE
       /\ queries' = Logged(queries, Query(offset))
       /\ responses' = Logged(responses, datapoints)
       /\ \E cur \in {get_current_value(get_statistics(args, offset, datapoints))} :
          \E got \in {Gather(pc, args, instance, cur.ret)} :
             /\ sample' = [fn |-> pc,
                           status |-> IF cur.exc = "None" THEN "returned" ELSE "raised",
                           exc |-> cur.exc, ret |-> cur.ret]
             /\ IF cur.exc # "None" THEN Crash(cur.exc)
                ELSE IF got.exc # "None" THEN Crash(got.exc)
                ELSE /\ states' = Append(states, got.item)
                     /\ pc' = NextFn(pc).pc
                     /\ call' = NextFn(pc).call
                     /\ IF pc = "cpu_used"
                        THEN Finish(Append(states, got.item))
                        ELSE UNCHANGED <<exit, output>>
  /\ offset' = 0
  /\ UNCHANGED <<args, instance, failedCall, probe, answer>>

Next ==
  \/ DescribeDbInstances
  \/ DescribeDbParameters
  \/ DescribeInstanceTypes
  \/ GetStatisticsFails
  \/ GetStatisticsRetry
  \/ GetStatisticsReturns

Spec == Init /\ [][Next]_vars

(***************************************************************************)
(* The threshold functions on their own: compare_range, compare and        *)
(* expand_unit applied to threshold strings built from the grammar         *)
(*   range := ["@"] (single | lower ":" upper),                            *)
(* each with a sample value.  A range is kept with its structure, so that  *)
(* what the functions make of its text can be compared with what it means. *)
(***************************************************************************)
\* sample values are h/2 for h in -MaxHalf..MaxHalf
MaxHalf == 22

\* a number of the grammar: its text, twice its value, its unit suffix
Num(text, half) == [kind |-> "num", text |-> text, half |-> half, suffix |-> <<>>]

Tilde == [kind |-> "tilde", text |-> <<"~">>, half |-> 0, suffix |-> <<>>]

Empty == [kind |-> "empty", text |-> <<>>, half |-> 0, suffix |-> <<>>]

WithUnit(tok, suffix) == [tok EXCEPT !.suffix = suffix]

Numbers ==
  { Num(<<"0">>, 0), Num(<<"5">>, 10), Num(<<"1", "0">>, 20),
    Num(<<"-", "5">>, -10), Num(<<"1", "0", ".", "5">>, 21), Num(<<"+", "7">>, 14) }

Single(inv, tok) == [inv |-> inv, single |-> TRUE, lo |-> Empty, hi |-> tok]

Range(inv, lo, hi) == [inv |-> inv, single |-> FALSE, lo |-> lo, hi |-> hi]

\* every range of the grammar over a set of numbers
RangesOver(nums, invs) ==
  {Single(i, n) : i \in invs, n \in nums}
    \cup {Range(i, lo, hi) : i \in invs, lo \in nums \cup {Tilde},
                             hi \in nums \cup {Tilde, Empty}}

\* the text of a range
Render(r) ==
  (IF r.inv THEN <<"@">> ELSE <<>>)
    \o (IF r.single THEN <<>> ELSE r.lo.text \o r.lo.suffix \o <<":">>)
    \o r.hi.text \o r.hi.suffix

Suffixes == {<<>>, <<"K">>, <<"K", "i">>, <<"M">>, <<"M", "i">>, <<"G">>, <<"G", "i">>}

\* whole numbers with every unit suffix
DiskNumbers ==
  { WithUnit(n, s) :
      n \in { Num(<<"8">>, 16), Num(<<"1", "0", "0", "0">>, 2000) },
      s \in Suffixes }

\* the ranges compare is probed with, as warning and as critical range
CompareRanges ==
  { Single(FALSE, Num(<<"1", "0">>, 20)),
    Range(FALSE, Num(<<"5">>, 10), Empty),
    Range(FALSE, Num(<<"5">>, 10), Num(<<"1", "0">>, 20)),
    Range(FALSE, Tilde, Num(<<"1", "0">>, 20)),
    Range(FALSE, Tilde, Tilde),
    Range(TRUE, Num(<<"5">>, 10), Num(<<"1", "0">>, 20)),
    Range(TRUE, Num(<<"-", "5">>, -10), Tilde) }

\* byte counts the disk thresholds are probed with
DiskValues ==
  { Zero, IntToDec(2000), IntToDec(1048576000),
    Dec(FALSE, <<8, 5, 8, 9, 9, 3, 4, 5, 9, 1>>, <<>>),
    Dec(FALSE, <<8, 5, 8, 9, 9, 3, 4, 5, 9, 2>>, <<>>),
    Dec(FALSE, <<8, 5, 8, 9, 9, 3, 4, 5, 9, 3>>, <<>>) }

NoRange == Single(FALSE, Empty)

ProbeOf(fn, half, value, range, warn, crit) ==
  [fn |-> fn, half |-> half, value |-> value, range |-> range, warn |-> warn,
   crit |-> crit]

Probes ==
  {ProbeOf("compare_range", h, HalfDec(h), r, NoRange, NoRange) :
     h \in (0 - MaxHalf)..MaxHalf, r \in RangesOver(Numbers, BOOLEAN)}
    \cup {ProbeOf("compare", h, HalfDec(h), NoRange, w, c) :
            h \in (0 - MaxHalf)..MaxHalf, w \in CompareRanges, c \in CompareRanges}
    \cup {ProbeOf("expand_unit", 0, v, r, NoRange, NoRange) :
            v \in DiskValues, r \in RangesOver(DiskNumbers, {FALSE})}

Answer(exc, ret, state, obj) ==
  [done |-> TRUE, exc |-> exc, ret |-> ret, state |-> state, obj |-> obj]

\* no run of main: only the probe
EvalInit ==
  /\ probe \in Probes
  /\ answer = NoAnswer
  /\ args = Parsed([percent |-> FALSE, last_state |-> FALSE, thresholds |-> Thresholds])
  /\ pc = "done"
  /\ call = "none"
  /\ instance = NoInstance
  /\ offset = 0
  /\ queries = <<>>
  /\ responses = <<>>
  /\ sample = Pending
  /\ states = <<>>
  /\ exit = Running
  /\ output = NoOutput
  /\ networkUsed = FALSE
  /\ failedCall = "none"

Idle ==
  UNCHANGED <<args, pc, call, instance, offset, queries, responses, sample, states,
              exit, output, networkUsed, failedCall, probe>>

\* compare_range(value, window)
ApplyCompareRange ==
  /\ probe.fn = "compare_range"
  /\ ~answer.done
  /\ \E r \in {compare_range(probe.value, StrObj(Render(probe.range)))} :
       answer' = Answer(r.exc, r.ret, STATE_OK, StrObj(<<>>))
  /\ Idle

\* compare(value, warn, crit)
ApplyCompare ==
  /\ probe.fn = "compare"
  /\ ~answer.done
  /\ \E r \in {compare(probe.value, StrObj(Render(probe.warn)), StrObj(Render(probe.crit)))} :
       answer' = Answer(r.exc, FALSE, r.state, StrObj(<<>>))
  /\ Idle

\* compare_range(value, expand_unit(window)), as line 367 uses the two
ApplyExpandUnit ==
  /\ probe.fn = "expand_unit"
  /\ ~answer.done
  /\ \E e \in {expand_unit(Render(probe.range))} :
       IF e.exc # "None" THEN answer' = Answer(e.exc, FALSE, STATE_OK, e.obj)
       ELSE \E r \in {compare_range(probe.value, e.obj)} :
              answer' = Answer(r.exc, r.ret, STATE_OK, e.obj)
  /\ Idle

EvalNext == ApplyCompareRange \/ ApplyCompare \/ ApplyExpandUnit

EvalSpec == EvalInit /\ [][EvalNext]_vars

(***************************************************************************)
(* Properties of a run of main, checked under Spec.                        *)
(***************************************************************************)
\* the name main reports a sampling function under, lines 358, 366, 374
ItemName(fn) ==
  CASE fn = "unused_connections" -> "free_connections"
    [] fn = "free_storage" -> "free_storage"
    [] fn = "cpu_used" -> "cpu_used"

\* get_current_value came back with None
AbsentSample == sample.status = "returned" /\ sample.ret.none

\* C1: whenever the sampler of a metric returns an absent sample, in absolute or
\* in percent mode, that metric is reported with state UNKNOWN and the run does
\* not abort: it goes on and ends with the summary of all three metrics and the
\* aggregated exit code.
C1_AbsentSampleIsUnknown ==
  AbsentSample =>
    /\ exit.exc = "None"
    /\ \E i \in 1..Len(states) :
         states[i].name = ItemName(sample.fn) /\ states[i].state = STATE_UNKNOWN
    /\ exit.status = "exited" =>
         /\ Len(output.items) = 3
         /\ exit.code = final_state(output.items)

\* the case of C1 that the code handles: CPUUtilization without datapoints
C1_AbsentCpuSample == AbsentSample /\ sample.fn = "cpu_used" /\ exit.status = "exited"

AllEmpty(log) == \A i \in 1..Len(log) : log[i] = <<>>

\* the queries of the log are those at offsets 0, 1, 2, ... in this order, each
\* Minutes wide and one minute further back than the one before
OffsetsInOrder(log) ==
  \A i \in 1..Len(log) :
    /\ log[i].EndTime = 0 - (i - 1)
    /\ log[i].EndTime - log[i].StartTime = Minutes

\* C2: with last_state, when the metric source has answered 21 queries in a row
\* with no datapoints, the queries were those at offsets 0..20, no further query
\* follows, and get_current_value returns None without raising.
C2_ExhaustedFallbackReturnsNone ==
  (args.last_state /\ Len(responses) = MaxOffset + 1 /\ AllEmpty(responses)) =>
    /\ Len(queries) = MaxOffset + 1
    /\ OffsetsInOrder(queries)
    /\ sample.status = "returned"
    /\ sample.ret.none

\* the part of C2 that the code keeps: never a query beyond offset 20
C2_NoQueryBeyondMaxOffset == Len(queries) <= MaxOffset + 1 /\ OffsetsInOrder(queries)

\* C3: with last_state, the queries go to offsets 0, 1, 2, ... in order, each for
\* a window of the same width shifted by one minute; only the last query of a
\* Metric can have been answered with datapoints (none follows a non-empty
\* answer); and when the k-th answer, k in 1..20, is the first with datapoints,
\* get_current_value returns the statistic of that answer's last datapoint.
C3_FallbackReturnsFirstData ==
  args.last_state =>
    /\ OffsetsInOrder(queries)
    /\ Len(responses) <= Len(queries)
    /\ \A i \in 1..Len(responses) :
         responses[i] # <<>> => i = Len(queries)
    /\ \A k \in 1..MaxOffset :
         (Len(responses) = k /\ responses[k] # <<>>) =>
           /\ sample.status = "returned"
           /\ sample.ret = Some(responses[k][Len(responses[k])])

\* data on the 20th query after 19 empty answers
C3_DataOnTwentiethCall ==
  /\ args.last_state
  /\ Len(responses) = MaxOffset
  /\ responses[MaxOffset] # <<>>
  /\ AllEmpty(SubSeq(responses, 1, MaxOffset - 1))
  /\ sample.status = "returned"
  /\ Len(queries) = MaxOffset

\* C4: without last_state a Metric queries the source once, at offset 0, and an
\* empty answer makes get_current_value return None.
C4_NoFallbackSingleQuery ==
  ~args.last_state =>
    /\ Len(queries) <= 1
    /\ \A i \in 1..Len(queries) : queries[i] = [StartTime |-> 0 - Minutes, EndTime |-> 0]
    /\ responses = <<<<>>>> => (sample.status = "returned" /\ sample.ret.none)

C4_EmptyAnswerWithoutFallback ==
  /\ ~args.last_state
  /\ responses = <<<<>>>>
  /\ queries = <<[StartTime |-> 0 - Minutes, EndTime |-> 0]>>
  /\ AbsentSample

\* C5: when a call to the metric source or to a metadata collaborator fails, the
\* check ends at once with UNKNOWN, exit code 3, and reports no per-metric state.
C5_TransportFailureIsUnknown ==
  failedCall # "none" =>
    /\ exit = Exited(STATE_UNKNOWN)
    /\ output.items = <<>>

\* the threshold strings of a command line that the parsing of lines 213-214 or
\* 312-322 raises ValueError on
ParseErrors(a) ==
  {s \in {a.warn_conns, a.crit_conns, a.warn_cpu, a.crit_cpu} :
     compare_range(Zero, StrObj(s)).exc = "ValueError"}
    \cup {s \in {a.warn_disk, a.crit_disk} :
            \/ expand_unit(s).exc = "ValueError"
            \/ /\ expand_unit(s).exc = "None"
               /\ expand_unit(s).obj.type = "str"
               /\ compare_range(Zero, expand_unit(s).obj).exc = "ValueError"}

\* C6: a check with a malformed threshold among the six, and no failing
\* collaborator, ends with UNKNOWN, exit code 3, without having called any
\* collaborator: no network call precedes the detection of the parse error.
C6_MalformedThresholdFailsFast ==
  (ParseErrors(args) # {} /\ exit.status = "exited" /\ failedCall = "none") =>
    /\ ~networkUsed
    /\ exit = Exited(STATE_UNKNOWN)

\* CRITICAL > WARNING > UNKNOWN > OK
Severity(s) ==
  CASE s = STATE_CRIT -> 3 [] s = STATE_WARN -> 2 [] s = STATE_UNKNOWN -> 1
    [] s = STATE_OK -> 0

Label(s) ==
  CASE s = STATE_CRIT -> "CRITICAL:" [] s = STATE_WARN -> "WARNING:"
    [] s = STATE_UNKNOWN -> "UNKNOWN:" [] s = STATE_OK -> "OK:"

MostSevere(sts) ==
  CHOOSE s \in {sts[i].state : i \in 1..Len(sts)} :
    \A i \in 1..Len(sts) : Severity(sts[i].state) <= Severity(s)

\* C8: once the three per-metric states exist, the process exits with the most
\* severe of them under CRITICAL > WARNING > UNKNOWN > OK, the summary carries
\* the label of that state and the three items in the order they were gathered,
\* and no reordering of the items changes the state chosen.
C8_ExitIsMostSevere ==
  Len(states) = 3 =>
    /\ exit = Exited(MostSevere(states))
    /\ output.text = Label(MostSevere(states))
    /\ output.items = states
    /\ \A p \in Permutations(1..3) :
         final_state([i \in 1..3 |-> states[p[i]]]) = exit.code

\* WARNING outranks UNKNOWN: a run with both and no CRITICAL exits 1
C8_WarningOverUnknown ==
  /\ Len(states) = 3
  /\ HasState(states, STATE_WARN)
  /\ HasState(states, STATE_UNKNOWN)
  /\ ~HasState(states, STATE_CRIT)
  /\ exit = Exited(STATE_WARN)

(***************************************************************************)
(* Properties of the threshold functions, checked under EvalSpec.          *)
(***************************************************************************)
Finite(x) == [none |-> FALSE, val |-> x]

Infinite == [none |-> TRUE, val |-> 0]

\* the bounds a range stands for, in halves: a single value is 0:value, '~' and
\* an empty upper side are no bound
LowerHalf(r) ==
  IF r.single THEN Finite(0)
  ELSE IF r.lo.kind = "tilde" THEN Infinite ELSE Finite(r.lo.half)

UpperHalf(r) == IF r.hi.kind = "num" THEN Finite(r.hi.half) ELSE Infinite

\* the containment test of the threshold format on h/2
Accepts(h, r) ==
  LET L == LowerHalf(r)
      U == UpperHalf(r)
  IN IF r.inv
     THEN ~((~L.none /\ h <= L.val) \/ (~U.none /\ h >= U.val))
     ELSE ~((~L.none /\ h < L.val) \/ (~U.none /\ h > U.val))

\* C9: for every range of the grammar and every value, compare_range raises
\* nothing and returns false exactly when the value is below a finite lower
\* bound or above a finite upper bound, the bounds themselves alerting too when
\* the range is inverted with '@'; a single value means 0:value, '~' as lower
\* bound means none, '~' or nothing as upper bound means none.
C9_CompareRangeContainment ==
  (probe.fn = "compare_range" /\ answer.done) =>
    /\ answer.exc = "None"
    /\ answer.ret = Accepts(probe.half, probe.range)
    /\ probe.range.single =>
         answer.ret =
           compare_range(probe.value,
                         StrObj(Render(Range(probe.range.inv, Num(<<"0">>, 0),
                                             probe.range.hi)))).ret

\* @5:10 rejects 5 itself
C9_InvertedRejectsBound ==
  /\ probe.fn = "compare_range"
  /\ answer.done
  /\ Render(probe.range) = <<"@", "5", ":", "1", "0">>
  /\ probe.half = 10
  /\ ~answer.ret

\* C10: for a value and two ranges of the grammar, compare raises nothing and
\* returns CRITICAL whenever the critical range rejects the value (also when the
\* warning range rejects it too), WARNING when only the warning range rejects
\* it, and OK when both accept it.
C10_CriticalFirst ==
  (probe.fn = "compare" /\ answer.done) =>
    LET c == Accepts(probe.half, probe.crit)
        w == Accepts(probe.half, probe.warn)
    IN /\ answer.exc = "None"
       /\ answer.state = (IF ~c THEN STATE_CRIT ELSE IF ~w THEN STATE_WARN ELSE STATE_OK)

\* a value that both ranges reject is CRITICAL
C10_FailsBothIsCritical ==
  /\ probe.fn = "compare"
  /\ answer.done
  /\ ~Accepts(probe.half, probe.crit)
  /\ ~Accepts(probe.half, probe.warn)
  /\ probe.crit # probe.warn
  /\ answer.state = STATE_CRIT

\* the factor of a unit suffix: K, Ki, M, Mi, G, Gi are 10^3, 2^10, 10^6, 2^20,
\* 10^9, 2^30
Factor(suffix) ==
  CASE suffix = <<>> -> 1
    [] suffix = <<"K">> -> 10 ^ 3
    [] suffix = <<"K", "i">> -> 2 ^ 10
    [] suffix = <<"M">> -> 10 ^ 6
    [] suffix = <<"M", "i">> -> 2 ^ 20
    [] suffix = <<"G">> -> 10 ^ 9
    [] suffix = <<"G", "i">> -> 2 ^ 30

\* the number of bytes a disk number stands for
Bytes(tok) == MulInt(HalfDec(tok.half), Factor(tok.suffix))

\* a disk number as a plain number: unchanged without a suffix
Plain(tok) ==
  IF tok.kind # "num" \/ tok.suffix = <<>> THEN tok.text ELSE PyStr(Bytes(tok))

\* the plain numeric range a disk threshold stands for
Expanded(r) ==
  (IF r.single THEN <<>> ELSE Plain(r.lo) \o <<":">>) \o Plain(r.hi)

\* the containment test on the expanded bounds
AcceptsBytes(v, r) ==
  LET lower == r.single \/ r.lo.kind = "num"
      L == IF r.single THEN Zero ELSE Bytes(r.lo)
      upper == r.hi.kind = "num"
      U == Bytes(r.hi)
  IN ~((lower /\ Lt(v, L)) \/ (upper /\ Gt(v, U)))

\* C7: for every disk threshold of the grammar, a single number or lower:upper
\* with unit suffixes, expand_unit gives the plain numeric range string with the
\* numbers multiplied by the factor of their suffix, and compare_range gives the
\* containment verdict for the expanded bounds without raising.
C7_ExpandUnitThenCompare ==
  (probe.fn = "expand_unit" /\ answer.done) =>
    /\ answer.exc = "None"
    /\ answer.obj = StrObj(Expanded(probe.range))
    /\ answer.ret = AcceptsBytes(probe.value, probe.range)

\* what the code keeps of C7: the same for every threshold but a single
\* suffixed number
C7_RangesAndPlainNumbers ==
  (probe.fn = "expand_unit" /\ answer.done
     /\ ~(probe.range.single /\ probe.range.hi.suffix # <<>>)) =>
    /\ answer.exc = "None"
    /\ answer.obj = StrObj(Expanded(probe.range))
    /\ answer.ret = AcceptsBytes(probe.value, probe.range)

\* the examples: 8Gi: is 8589934592:, 1000Mi: is 1048576000:, 2Ki: is 2048:
C7_Examples ==
  /\ expand_unit(<<"8", "G", "i", ":">>).obj.str
       = <<"8", "5", "8", "9", "9", "3", "4", "5", "9", "2", ":">>
  /\ expand_unit(<<"1", "0", "0", "0", "M", "i", ":">>).obj.str
       = <<"1", "0", "4", "8", "5", "7", "6", "0", "0", "0", ":">>
  /\ expand_unit(<<"2", "K", "i", ":">>).obj.str = <<"2", "0", "4", "8", ":">>
  /\ expand_unit(<<"4", "2">>).obj.str = <<"4", "2">>

====
